---------------------------- MODULE Spec2Model ----------------------------
(***************************************************************************)
(* A model of src/main.py: the incremental synchronisation of commit       *)
(* records from a rate-limited, paginated remote API into a warehouse      *)
(* table.                                                                  *)
(*                                                                         *)
(*   wait_for_rate_limit        (lines 28-37)                              *)
(*   fetch_commit_history       (lines 40-89)   one task per repository    *)
(*   increment_table            (lines 107-157) the dedup merge            *)
(*   fetch_all_commit_histories (lines 168-184) the collector              *)
(*   the module body            (lines 160-192) the run                    *)
(*                                                                         *)
(* Time is an integer clock.  The remote API, the warehouse and the        *)
(* libraries (requests, pandas, snowflake.connector) are the environment:  *)
(* what they answer is chosen nondeterministically among the outcomes the  *)
(* code can meet.                                                          *)
(***************************************************************************)
EXTENDS Integers, Sequences, FiniteSets, TLC

(***************************************************************************)
(* Bounds of the model.                                                    *)
(***************************************************************************)
\* The clock runs from 0 to MaxClock.
MaxClock == 2
\* Pages a remote repository serves at most.
MaxPages == 2
\* 403 responses one fetch task meets at most.
Max403 == 1
\* Records of a batch handed to the merge when it is exercised on its own.
MaxBatchLen == 2
\* Calls of the merge when it is exercised on its own.
MaxCalls == 2
\* Worker threads of the pool at most (the library gives
\* ThreadPoolExecutor() min(32, cpu_count + 4) of them).
MaxWorkers == 2

(***************************************************************************)
(* Program constants.                                                      *)
(***************************************************************************)
\* PAGE_SIZE = 100
PAGE_SIZE == 100
\* timedelta(days=3)
WindowDays == 3
\* time.sleep(1)
GraceDelay == 1

(***************************************************************************)
(* Data.                                                                   *)
(***************************************************************************)
\* The rows of SCROLLSTATS_LABELS_REPOS read at line 160.
repos ==
  << [OWNER |-> "a", NAME |-> "b", URL |-> "https://github.com/a/b"],
     [OWNER |-> "c", NAME |-> "d", URL |-> "https://github.com/c/d"] >>

Tasks == DOMAIN repos

\* f"{owner}/{repo}"
RepoName(owner, repo) == owner \o "/" \o repo

RepoKeys == { RepoName(repos[i].OWNER, repos[i].NAME) : i \in Tasks }

\* Author dates the remote can hold, on the clock's scale.
CommitDates == {-4, -1}

\* Author names the remote can hold.
Authors == {"alice"}

\* A row of SCROLLSTATS_GIT_COMMITS and of its temporary twin.
Rows == [DATE : CommitDates, USERNAME : Authors, REPO_NAME : RepoKeys]

\* A table is a bag of rows: the number of copies of each row.
EmptyTable == [k \in Rows |-> 0]

RECURSIVE SeqsUpTo(_, _)
SeqsUpTo(S, n) ==
  IF n = 0 THEN {<< >>}
  ELSE LET shorter == SeqsUpTo(S, n - 1)
       IN  shorter \cup { Append(s, x) : s \in {t \in shorter : Len(t) = n - 1}, x \in S }

Max(a, b) == IF a >= b THEN a ELSE b

Min(a, b) == IF a <= b THEN a ELSE b

(***************************************************************************)
(* The state.                                                              *)
(***************************************************************************)
VARIABLES
  \* ---- the environment of the fetch
  clock,          \* time.time() and datetime.now()
  remote,         \* per repository, the pages of commits the remote holds
  workers,        \* the worker threads the pool of line 169 can run
  other,          \* the call of increment_table of a concurrent run of the
                  \* program, in a session of its own: where it stands, its
                  \* locals, its connection and its temporary table
  \* ---- fetch_commit_history, one task per repository
  pc,             \* "queued", "request", "sleep", "done" or "failed"
  page,           \* page
  commit_history, \* commit_history
  since_date,     \* since_date
  wakeAt,         \* when the sleeps of lines 37 and 71 are over
  lastResp,       \* response, as last received
  \* ---- history of a task (not program state)
  startTime,      \* the clock when the task started
  lastReq,        \* the parameters of the last requests.get
  nreq,           \* the number of requests issued
  n403,           \* the number of 403 responses received
  \* ---- fetch_all_commit_histories and the module body
  mainPc,         \* "collecting", "merging" or "crashed"
  collected,      \* the futures as_completed has yielded
  dfs,            \* dfs
  dfsFrom,        \* the task each frame of dfs came from (not program state)
  failures,       \* the repositories whose exception line 184 printed
  \* ---- the warehouse
  table,          \* SCROLLSTATS_GIT_COMMITS: a bag of rows
  stagingExists,  \* whether TEMP_SCROLLSTATS_GIT_COMMITS exists in the session
  staging,        \* its content, a bag of rows
  conn,           \* the connection of increment_table: "none", "open", "closed"
  \* ---- increment_table
  mergePc,        \* where the call stands
  df,             \* its argument, a sequence of records
  success,        \* write_pandas's first result
  nrows,          \* write_pandas's third result
  printed,        \* what lines 152-157 printed
  raisedAt,       \* the statement whose exception ended the call
  \* ---- history of the merge calls (not program state)
  tableBefore,    \* the permanent table when the current call was entered
  prev,           \* the call before the current one: whether it loaded the
                  \* same batch in full and returned, and whether it added rows
  calls           \* the number of calls entered

mergeVars ==
  << table, stagingExists, staging, conn, mergePc, df, success, nrows,
     printed, raisedAt, tableBefore, prev, calls >>

envVars == << clock, remote, workers, other >>

taskVars ==
  << pc, page, commit_history, since_date, wakeAt, lastResp, startTime,
     lastReq, nreq, n403 >>

mainVars == << mainPc, collected, dfs, dfsFrom, failures >>

fetchVars == << envVars, taskVars, mainVars >>

vars == << fetchVars, mergeVars >>

(***************************************************************************)
(* increment_table (lines 107-157).                                        *)
(***************************************************************************)
\* df.columns = df.columns.str.upper()   (line 108)
ColumnsUpper(rec) ==
  [DATE |-> rec.date, USERNAME |-> rec.username, REPO_NAME |-> rec.repo_name]

\* The rows of a frame as a bag.
BagOf(frame) ==
  [k \in Rows |-> Cardinality({ i \in DOMAIN frame : frame[i] = k })]

\* A statement that replaces the content of the table by the staged rows.
MergeQueryOverwrite(t, temp) == temp

\* The statement without its WHERE NOT EXISTS: every staged row is inserted.
MergeQueryNoFilter(t, temp) == [k \in Rows |-> t[k] + temp[k]]

\* INSERT INTO t SELECT * FROM temp WHERE NOT EXISTS (SELECT 1 FROM t WHERE
\* the three columns are equal)   (lines 136-146).  NOT EXISTS reads the
\* permanent table as it is when the statement starts, so every copy of a
\* staged row whose key is absent is inserted.
MergeQuery(t, temp) ==
  [k \in Rows |-> IF t[k] = 0 THEN temp[k] ELSE t[k]]

NoPrint == [kind |-> "none", rows |-> 0]

\* The call increment_table(d), once per run of the program: the history is
\* recorded, the locals are fresh, and the process has no session yet (a
\* temporary table lives and dies with the session that created it).
EnterMerge(d) ==
  /\ df' = d
  /\ mergePc' = "called"
  /\ conn' = "none"
  /\ success' = FALSE
  /\ nrows' = 0
  /\ printed' = NoPrint
  /\ raisedAt' = "none"
  /\ tableBefore' = table
  /\ prev' = [same |-> (/\ mergePc = "returned"
                         /\ success
                         /\ df = [i \in DOMAIN d |-> ColumnsUpper(d[i])]),
              added |-> (mergePc = "returned" /\ table # tableBefore)]
  /\ calls' = calls + 1
  /\ stagingExists' = FALSE
  /\ staging' = EmptyTable
  /\ UNCHANGED table

\* An exception leaves the call: nothing after the raising statement runs.
\* The session's temporary table goes with the session when the process ends;
\* lines 148-149 are not reached.
Raise(at) ==
  /\ mergePc' = "raised"
  /\ raisedAt' = at

\* Line 108.  A frame built from no record at all has no columns, and whether
\* .str is offered on its (empty) column index depends on the pandas build.
UpperColumns ==
  /\ mergePc = "called"
  /\ \/ /\ df' = [i \in DOMAIN df |-> ColumnsUpper(df[i])]
        /\ mergePc' = "upper"
        /\ UNCHANGED raisedAt
     \/ /\ df = << >>
        /\ Raise("columns")
        /\ UNCHANGED df
  /\ UNCHANGED << table, stagingExists, staging, conn, success, nrows, printed,
                  tableBefore, prev, calls >>

\* Lines 110-120: snowflake.connector.connect and conn.cursor.
Connect ==
  /\ mergePc = "upper"
  /\ \/ /\ conn' = "open"
        /\ mergePc' = "connected"
        /\ UNCHANGED raisedAt
     \/ /\ Raise("connect")
        /\ UNCHANGED conn
  /\ UNCHANGED << table, stagingExists, staging, df, success, nrows, printed,
                  tableBefore, prev, calls >>

\* Line 130: CREATE TEMPORARY TABLE.
CreateTemp ==
  /\ mergePc = "connected"
  /\ \/ /\ stagingExists' = TRUE
        /\ staging' = EmptyTable
        /\ mergePc' = "created"
        /\ UNCHANGED raisedAt
     \/ /\ Raise("create")
        /\ UNCHANGED << stagingExists, staging >>
  /\ UNCHANGED << table, conn, df, success, nrows, printed, tableBefore, prev,
                  calls >>

\* Line 133: write_pandas loads the frame into the temporary table and returns
\* (success, nchunks, nrows, _).  It loads every row and reports success, or
\* it raises, or it reports that not every chunk was loaded, with the rows of
\* the chunks that were (fewer than the frame holds).
WritePandas ==
  /\ mergePc = "created"
  /\ \/ /\ staging' = BagOf(df)
        /\ success' = TRUE
        /\ nrows' = Len(df)
        /\ mergePc' = "loaded"
        /\ UNCHANGED raisedAt
     \/ /\ \E n \in 0 .. Len(df) - 1 :
             /\ staging' = BagOf(SubSeq(df, 1, n))
             /\ nrows' = n
        /\ success' = FALSE
        /\ mergePc' = "loaded"
        /\ UNCHANGED raisedAt
     \/ /\ Raise("load")
        /\ UNCHANGED << staging, success, nrows >>
  /\ UNCHANGED << table, stagingExists, conn, df, printed, tableBefore, prev,
                  calls >>

\* Line 146: the merge statement, one atomic statement of the warehouse.
ExecuteMerge ==
  /\ mergePc = "loaded"
  /\ \/ /\ table' = MergeQuery(table, staging)
        /\ mergePc' = "merged"
        /\ UNCHANGED raisedAt
     \/ /\ Raise("merge")
        /\ UNCHANGED table
  /\ UNCHANGED << stagingExists, staging, conn, df, success, nrows, printed,
                  tableBefore, prev, calls >>

\* Lines 148-149: closing the connection ends the session and its temporary
\* table.
CloseConn ==
  /\ mergePc = "merged"
  /\ conn' = "closed"
  /\ stagingExists' = FALSE
  /\ staging' = EmptyTable
  /\ mergePc' = "closed"
  /\ UNCHANGED << table, df, success, nrows, printed, raisedAt, tableBefore,
                  prev, calls >>

\* Lines 152-157.
Report ==
  /\ mergePc = "closed"
  /\ printed' = IF success THEN [kind |-> "written", rows |-> nrows]
                ELSE [kind |-> "failed", rows |-> 0]
  /\ mergePc' = "returned"
  /\ UNCHANGED << table, stagingExists, staging, conn, df, success, nrows,
                  raisedAt, tableBefore, prev, calls >>

\* No concurrent run of the program is in increment_table.
NoCall ==
  [pc |-> "idle", df |-> << >>, conn |-> "none", stagingExists |-> FALSE,
   staging |-> EmptyTable, success |-> FALSE, nrows |-> 0]

MergeStep ==
  /\ \/ UpperColumns
     \/ Connect
     \/ CreateTemp
     \/ WritePandas
     \/ ExecuteMerge
     \/ CloseConn
     \/ Report
  /\ UNCHANGED fetchVars

(***************************************************************************)
(* The remote API.                                                         *)
(***************************************************************************)
NewCommit == [date |-> -1, name |-> "alice"]
OldCommit == [date |-> -4, name |-> "alice"]

\* What page p of a repository holds.
PageContent(p) == IF p % 2 = 1 THEN << NewCommit >> ELSE << NewCommit, OldCommit >>

\* A repository of k pages.
PagesOf(k) == [p \in 1 .. k |-> PageContent(p)]

\* The items of page p the remote returns for a request with the given since:
\* the remote honours the parameter.
Served(pages, p, since) ==
  IF p \in DOMAIN pages
  THEN SelectSeq(pages[p], LAMBDA c : c.date >= since)
  ELSE << >>

\* response.links: the continuation signal.
Links(pages, p) == IF p < Len(pages) THEN {"next"} ELSE {}

\* Response headers, as a set of <<name, value>>.
ResetHeader(value) == { << "X-RateLimit-Reset", value >> }

\* The integers whose decimal form the remote may send.
IntLiterals == 0 .. MaxClock

\* A header value that is no integer.
MalformedReset == "1.5"

NoResponse ==
  [status_code |-> 0, headers |-> {}, jsonOk |-> FALSE, links |-> {}]

\* The responses the remote can give to a request for page p with the given
\* since.  A 403 is given while the task has met fewer than Max403 of them and
\* the wait it causes ends within the clock's range.
Responses(i, p, since) ==
  LET ok == [status_code |-> 200, headers |-> {}, jsonOk |-> TRUE,
             json |-> Served(remote[i], p, since), links |-> Links(remote[i], p)]
      bad == [ok EXCEPT !.jsonOk = FALSE, !.json = << >>]
      err == [status_code |-> 500, headers |-> {}, jsonOk |-> FALSE,
              json |-> << >>, links |-> {}]
      lim(h) == [status_code |-> 403, headers |-> h, jsonOk |-> FALSE,
                 json |-> << >>, links |-> {}]
      resets == { t \in IntLiterals : Max(t, clock) + GraceDelay <= MaxClock }
      limited ==
        IF n403[i] < Max403
        THEN { lim(ResetHeader(ToString(t))) : t \in resets }
             \cup { lim(ResetHeader(MalformedReset)) }
             \cup (IF clock + GraceDelay <= MaxClock THEN { lim({}) } ELSE {})
        ELSE {}
  IN  {ok, bad, err} \cup limited

(***************************************************************************)
(* wait_for_rate_limit (lines 28-37).                                      *)
(***************************************************************************)
\* name in headers, and headers[name]
HasHeader(headers, name) == \E h \in headers : h[1] = name

HeaderValue(headers, name) == (CHOOSE h \in headers : h[1] = name)[2]

\* int(s) of a string: the integer it spells, and ValueError when it spells
\* none.
IntOfString(s) ==
  IF \E n \in IntLiterals : ToString(n) = s
  THEN [ok |-> TRUE, val |-> CHOOSE n \in IntLiterals : ToString(n) = s]
  ELSE [ok |-> FALSE, val |-> 0]

\* int(headers.get('X-RateLimit-Reset', time.time()))   (line 35): the header
\* when there is one, and the integer part of the clock otherwise.
ResetTime(headers, now) ==
  IF HasHeader(headers, "X-RateLimit-Reset")
  THEN IntOfString(HeaderValue(headers, "X-RateLimit-Reset"))
  ELSE [ok |-> TRUE, val |-> now]

\* Line 36 not waiting for the reset.
SleepTimeNone(reset_time, now) == 0

\* max(0, reset_time - int(time.time()))   (line 36)
SleepTime(reset_time, now) == Max(0, reset_time - now)

\* The call: whether line 35 raised, and the time slept at line 37.
WaitForRateLimit(headers, now) ==
  LET reset_time == ResetTime(headers, now)
  IN  IF reset_time.ok
      THEN [raised |-> FALSE, slept |-> SleepTime(reset_time.val, now)]
      ELSE [raised |-> TRUE, slept |-> 0]

(***************************************************************************)
(* fetch_commit_history (lines 40-89).                                     *)
(***************************************************************************)
\* The dictionary of lines 78-82.
ToRecord(owner, repo, commit) ==
  [date |-> commit.date, username |-> commit.name,
   repo_name |-> RepoName(owner, repo)]

ToRecords(owner, repo, data) ==
  [n \in DOMAIN data |-> ToRecord(owner, repo, data[n])]

\* One list for all the tasks (commit_history bound outside the function):
\* the records of the tasks up to the n-th, and line 78 extending that list.
RECURSIVE SharedHistory(_)
SharedHistory(n) ==
  IF n = 0 THEN << >> ELSE SharedHistory(n - 1) \o commit_history[n]

ExtendShared(history, records) == SharedHistory(Len(repos)) \o records

\* Line 78 assigning the page's records instead of extending by them.
ExtendReplaces(history, records) == records

\* commit_history.extend(...)   (line 78)
Extend(history, records) == history \o records

\* datetime.now() - timedelta(days=3)   (line 57)
ThreeDaysAgo(now) == now - WindowDays

\* Line 66 computing the bound anew for each request.
SinceParamNow(i) == ThreeDaysAgo(clock)

\* "since": since_date   (line 66)
SinceParam(i) == since_date[i]

\* Lines 74-75 returning what was accumulated instead of raising.
BadStatusReturns == "done"

\* What a response other than 200 and 403 does to the task (lines 74-75):
\* the exception ends it.
BadStatus == "failed"

\* Line 72 going on to the next page after the wait.
PageAfter403Advances(p) == p + 1

\* continue   (line 72): the loop turns again with page as it is.
PageAfter403(p) == p

\* Line 85 stepping over a page.
NextPageSkips(p) == p + 2

\* page += 1   (line 85)
NextPage(p) == p + 1

Running == { j \in Tasks : pc[j] \in {"request", "sleep"} }

\* A pool that starts a thread for every submitted task.
CanStartNoCap(i) ==
  /\ pc[i] = "queued"
  /\ \A j \in Tasks : j < i => pc[j] # "queued"

\* The pool has a free worker for the task at the head of its queue.
CanStart(i) ==
  /\ pc[i] = "queued"
  /\ \A j \in Tasks : j < i => pc[j] # "queued"
  /\ Cardinality(Running) < workers

\* A worker thread takes the task from the pool's queue, in the order of
\* submission (lines 170-174), and runs lines 51-59.
Start(i) ==
  /\ CanStart(i)
  /\ pc' = [pc EXCEPT ![i] = "request"]
  /\ page' = [page EXCEPT ![i] = 1]
  /\ commit_history' = [commit_history EXCEPT ![i] = << >>]
  /\ since_date' = [since_date EXCEPT ![i] = ThreeDaysAgo(clock)]
  /\ startTime' = [startTime EXCEPT ![i] = clock]
  /\ UNCHANGED << envVars, wakeAt, lastResp, lastReq, nreq, n403, mainVars,
                  mergeVars >>

\* The task is at line 62: it was not sleeping, or its sleep is over.
Ready(i) ==
  \/ pc[i] = "request"
  \/ pc[i] = "sleep" /\ clock >= wakeAt[i]

\* One turn of the loop (lines 62-87): the request, and what the task does
\* with the response.
Fetch(i) ==
  /\ Ready(i)
  /\ \E response \in Responses(i, page[i], SinceParam(i)) :
       /\ lastReq' = [lastReq EXCEPT ![i] =
                        [per_page |-> PAGE_SIZE, page |-> page[i],
                         since |-> SinceParam(i)]]
       /\ nreq' = [nreq EXCEPT ![i] = @ + 1]
       /\ lastResp' = [lastResp EXCEPT ![i] =
                         [status_code |-> response.status_code,
                          headers |-> response.headers,
                          jsonOk |-> response.jsonOk,
                          links |-> response.links]]
       /\ IF response.status_code = 403
          THEN LET w == WaitForRateLimit(response.headers, clock)
               IN  /\ n403' = [n403 EXCEPT ![i] = @ + 1]
                   /\ IF w.raised
                      THEN /\ pc' = [pc EXCEPT ![i] = "failed"]
                           /\ UNCHANGED wakeAt
                      ELSE /\ pc' = [pc EXCEPT ![i] = "sleep"]
                           /\ wakeAt' = [wakeAt EXCEPT ![i] =
                                           clock + w.slept + GraceDelay]
                   /\ page' = [page EXCEPT ![i] = PageAfter403(@)]
                   /\ UNCHANGED commit_history
          ELSE IF response.status_code # 200
          THEN /\ pc' = [pc EXCEPT ![i] = BadStatus]
               /\ UNCHANGED << page, commit_history, wakeAt, n403 >>
          ELSE IF ~response.jsonOk
          THEN /\ pc' = [pc EXCEPT ![i] = "failed"]
               /\ UNCHANGED << page, commit_history, wakeAt, n403 >>
          ELSE /\ commit_history' = [commit_history EXCEPT ![i] =
                    Extend(@, ToRecords(repos[i].OWNER, repos[i].NAME,
                                        response.json))]
               /\ IF "next" \in response.links
                  THEN /\ page' = [page EXCEPT ![i] = NextPage(@)]
                       /\ pc' = [pc EXCEPT ![i] = "request"]
                  ELSE /\ pc' = [pc EXCEPT ![i] = "done"]
                       /\ UNCHANGED page
               /\ UNCHANGED << wakeAt, n403 >>
  /\ UNCHANGED << envVars, since_date, startTime, mainVars, mergeVars >>

\* Time passes.  Only the fetch tasks read the clock, and a free worker takes
\* a submitted task at once.
Tick ==
  /\ clock < MaxClock
  /\ \E i \in Tasks : pc[i] \notin {"done", "failed"}
  /\ \A i \in Tasks : ~CanStart(i)
  /\ clock' = clock + 1
  /\ UNCHANGED << remote, workers, other, taskVars, mainVars, mergeVars >>

(***************************************************************************)
(* fetch_all_commit_histories (lines 168-184) and the module body          *)
(* (lines 187-192).                                                        *)
(***************************************************************************)
\* pd.DataFrame(data): one row per dictionary.
DataFrame(data) == data

\* pd.concat(dfs, ignore_index=True)
RECURSIVE Concat(_)
Concat(frames) ==
  IF frames = << >> THEN << >> ELSE Head(frames) \o Concat(Tail(frames))

\* as_completed yields a finished future; lines 176-184.
Collect(i) ==
  /\ mainPc = "collecting"
  /\ i \notin collected
  /\ pc[i] \in {"done", "failed"}
  /\ collected' = collected \cup {i}
  /\ IF pc[i] = "done"
     THEN /\ dfs' = Append(dfs, DataFrame(commit_history[i]))
          /\ dfsFrom' = Append(dfsFrom, i)
          /\ UNCHANGED failures
     ELSE /\ failures' = failures \cup {i}
          /\ UNCHANGED << dfs, dfsFrom >>
  /\ UNCHANGED << envVars, taskVars, mainPc, mergeVars >>

\* The loop of line 175 left at the first future yielded.
FirstYielded == collected # {}

\* The loop of line 175 ends when as_completed has yielded every future.
AllYielded == collected = Tasks

\* Every future was yielded: the pool shuts down, and line 190 concatenates.
\* pd.concat raises ValueError on an empty list; otherwise line 192 calls
\* increment_table.
ConcatAndCall ==
  /\ mainPc = "collecting"
  /\ AllYielded
  /\ IF dfs = << >>
     THEN /\ mainPc' = "crashed"
          /\ UNCHANGED mergeVars
     ELSE /\ mainPc' = "merging"
          /\ EnterMerge(Concat(dfs))
  /\ UNCHANGED << envVars, taskVars, collected, dfs, dfsFrom, failures >>

(***************************************************************************)
(* The run: the state when line 160 has read the repositories.             *)
(***************************************************************************)
\* The permanent table at the start of the run: empty, or holding a row the
\* remote holds too (an earlier run's).
InitTables ==
  { EmptyTable,
    [EmptyTable EXCEPT ![ColumnsUpper(ToRecord("a", "b", NewCommit))] = 1] }

InitTasks ==
  /\ pc = [i \in Tasks |-> "queued"]
  /\ page = [i \in Tasks |-> 1]
  /\ commit_history = [i \in Tasks |-> << >>]
  /\ since_date = [i \in Tasks |-> 0]
  /\ wakeAt = [i \in Tasks |-> 0]
  /\ lastResp = [i \in Tasks |-> NoResponse]
  /\ startTime = [i \in Tasks |-> 0]
  /\ lastReq = [i \in Tasks |-> [per_page |-> PAGE_SIZE, page |-> 0, since |-> 0]]
  /\ nreq = [i \in Tasks |-> 0]
  /\ n403 = [i \in Tasks |-> 0]

InitMain ==
  /\ collected = {}
  /\ dfs = << >>
  /\ dfsFrom = << >>
  /\ failures = {}

InitCall ==
  /\ stagingExists = FALSE
  /\ staging = EmptyTable
  /\ conn = "none"
  /\ mergePc = "idle"
  /\ df = << >>
  /\ success = FALSE
  /\ nrows = 0
  /\ printed = NoPrint
  /\ raisedAt = "none"
  /\ tableBefore = table
  /\ prev = [same |-> FALSE, added |-> FALSE]
  /\ calls = 0

\* The pool starts a thread only for a submitted task that finds none idle:
\* it never runs more threads than there are tasks, whatever max_workers is.
PoolSizes == 1 .. Min(MaxWorkers, Len(repos))

Init ==
  /\ clock = 0
  /\ remote \in [Tasks -> { PagesOf(k) : k \in 0 .. MaxPages }]
  /\ workers \in PoolSizes
  /\ other = NoCall
  /\ InitTasks
  /\ mainPc = "collecting"
  /\ InitMain
  /\ table \in InitTables
  /\ InitCall

Next ==
  \/ Tick
  \/ \E i \in Tasks : Start(i)
  \/ \E i \in Tasks : Fetch(i)
  \/ \E i \in Tasks : Collect(i)
  \/ ConcatAndCall
  \/ MergeStep

Spec == Init /\ [][Next]_vars

(***************************************************************************)
(* The merge on its own: any table without duplicate keys, and calls of    *)
(* increment_table one after the other (one per run of the program) on any *)
(* batches.                                                                *)
(***************************************************************************)
\* The frames pd.DataFrame builds from records of fetch_commit_history.
Records == [date : CommitDates, username : Authors, repo_name : RepoKeys]

Batches == SeqsUpTo(Records, MaxBatchLen)

\* A run of the program ends, and the session of its connection with it.
CallMerge(b) ==
  /\ mergePc \in {"idle", "returned", "raised"}
  /\ calls < MaxCalls
  /\ EnterMerge(b)
  /\ UNCHANGED fetchVars

\* The fetch is left out: no task runs, and the batches are any batches.
InitMerge ==
  /\ clock = 0
  /\ remote = [i \in Tasks |-> PagesOf(0)]
  /\ workers = 1
  /\ other = NoCall
  /\ InitTasks
  /\ mainPc = "merging"
  /\ InitMain
  /\ table \in [Rows -> {0, 1}]
  /\ InitCall

NextMerge ==
  \/ \E b \in Batches : CallMerge(b)
  \/ MergeStep

SpecMerge == InitMerge /\ [][NextMerge]_vars

(***************************************************************************)
(* Two runs of the program at the same time, both in increment_table on    *)
(* the one permanent table.  Each run has a connection, and so a session   *)
(* and a TEMP_SCROLLSTATS_GIT_COMMITS, of its own (a temporary table is    *)
(* seen by the session that created it only).  The runs interleave at the  *)
(* statements of lines 108-157.                                            *)
(***************************************************************************)
\* A statement of the concurrent run's call: the statements of UpperColumns,
\* Connect, CreateTemp, WritePandas, ExecuteMerge, CloseConn and Report, on
\* that call's locals and session.
OtherMergeStep ==
  /\ \/ /\ other.pc = "called"                               \* line 108
        /\ \/ other' = [other EXCEPT
                          !.df = [i \in DOMAIN @ |-> ColumnsUpper(@[i])],
                          !.pc = "upper"]
           \/ /\ other.df = << >>
              /\ other' = [other EXCEPT !.pc = "raised"]
        /\ UNCHANGED table
     \/ /\ other.pc = "upper"                                \* lines 110-120
        /\ \/ other' = [other EXCEPT !.conn = "open", !.pc = "connected"]
           \/ other' = [other EXCEPT !.pc = "raised"]
        /\ UNCHANGED table
     \/ /\ other.pc = "connected"                            \* line 130
        /\ \/ other' = [other EXCEPT !.stagingExists = TRUE,
                                      !.staging = EmptyTable,
                                      !.pc = "created"]
           \/ other' = [other EXCEPT !.pc = "raised"]
        /\ UNCHANGED table
     \/ /\ other.pc = "created"                              \* line 133
        /\ \/ other' = [other EXCEPT !.staging = BagOf(other.df),
                                      !.success = TRUE,
                                      !.nrows = Len(other.df),
                                      !.pc = "loaded"]
           \/ \E n \in 0 .. Len(other.df) - 1 :
                other' = [other EXCEPT
                            !.staging = BagOf(SubSeq(other.df, 1, n)),
                            !.success = FALSE,
                            !.nrows = n,
                            !.pc = "loaded"]
           \/ other' = [other EXCEPT !.pc = "raised"]
        /\ UNCHANGED table
     \/ /\ other.pc = "loaded"                               \* line 146
        /\ \/ /\ table' = MergeQuery(table, other.staging)
              /\ other' = [other EXCEPT !.pc = "merged"]
           \/ /\ other' = [other EXCEPT !.pc = "raised"]
              /\ UNCHANGED table
     \/ /\ other.pc = "merged"                               \* lines 148-149
        /\ other' = [other EXCEPT !.conn = "closed",
                                  !.stagingExists = FALSE,
                                  !.staging = EmptyTable,
                                  !.pc = "closed"]
        /\ UNCHANGED table
     \/ /\ other.pc = "closed"                               \* lines 152-157
        /\ other' = [other EXCEPT !.pc = "returned"]
        /\ UNCHANGED table
  /\ UNCHANGED << clock, remote, workers, taskVars, mainVars, stagingExists,
                  staging, conn, mergePc, df, success, nrows, printed,
                  raisedAt, tableBefore, prev, calls >>

\* Both runs have just called increment_table, on any batches; the table is
\* empty or holds a row of an earlier run.
InitConc ==
  /\ clock = 0
  /\ remote = [i \in Tasks |-> PagesOf(0)]
  /\ workers = 1
  /\ InitTasks
  /\ mainPc = "merging"
  /\ InitMain
  /\ table \in InitTables
  /\ stagingExists = FALSE
  /\ staging = EmptyTable
  /\ conn = "none"
  /\ mergePc = "called"
  /\ df \in Batches
  /\ success = FALSE
  /\ nrows = 0
  /\ printed = NoPrint
  /\ raisedAt = "none"
  /\ tableBefore = table
  /\ prev = [same |-> FALSE, added |-> FALSE]
  /\ calls = 1
  /\ other \in { [NoCall EXCEPT !.pc = "called", !.df = b] : b \in Batches }

NextConc ==
  \/ MergeStep
  \/ OtherMergeStep

SpecConc == InitConc /\ [][NextConc]_vars

(***************************************************************************)
(* The claims.                                                             *)
(***************************************************************************)
Range(f) == { f[x] : x \in DOMAIN f }

\* C1. Merging the same batch twice in succession leaves the permanent table
\* as merging it once did: throughout a call that follows a call which loaded
\* the same batch in full and returned, the table is what it was when the
\* second call was entered, so the second call adds no row.
C1_MergeTwiceSameAsOnce == prev.same => table = tableBefore

\* A second call of the same batch has returned, after a first that added rows.
C1_Witness ==
  /\ prev.same
  /\ prev.added
  /\ mergePc = "returned"
  /\ success
  /\ df # << >>

\* C2, as claimed. From a table without duplicate keys, after any merge calls
\* with any batches, no two rows of the permanent table share the triple
\* (DATE, USERNAME, REPO_NAME).
C2_NoDuplicateKeys == \A k \in Rows : table[k] <= 1

\* The records fetch_commit_history is to return for task i: those of the
\* pages 1..K the remote serves for the window of the fetch, in order.
RECURSIVE PagesUpTo(_, _)
PagesUpTo(i, k) ==
  IF k = 0 THEN << >>
  ELSE PagesUpTo(i, k - 1)
       \o [n \in DOMAIN Served(remote[i], k, startTime[i] - WindowDays) |->
             [date |-> Served(remote[i], k, startTime[i] - WindowDays)[n].date,
              username |-> Served(remote[i], k, startTime[i] - WindowDays)[n].name,
              repo_name |-> RepoName(repos[i].OWNER, repos[i].NAME)]]

\* C3. Whatever 403 responses came in between, a fetch that returns returns
\* exactly the records of the pages 1..K in order, each once; and a readable
\* 200 response without continuation signal (an empty first page too) ends
\* the fetch with a result, not with an error.
C3_FetchReturnsAllPages ==
  \A i \in Tasks :
    /\ pc[i] = "done" => commit_history[i] = PagesUpTo(i, Len(remote[i]))
    /\ ( /\ lastResp[i].status_code = 200
         /\ lastResp[i].jsonOk
         /\ "next" \notin lastResp[i].links ) => pc[i] = "done"

\* A fetch of several pages has returned its records after a 403.
C3_Witness ==
  \E i \in Tasks :
    /\ pc[i] = "done"
    /\ Len(remote[i]) >= 2
    /\ n403[i] >= 1
    /\ Len(commit_history[i]) >= 2

\* The records of the repositories whose fetch succeeded, as collected.
SucceededRecords ==
  Concat([n \in DOMAIN dfsFrom |-> commit_history[dfsFrom[n]]])

\* C4, as claimed. Whichever fetches fail, every one of them included, once
\* all futures are collected the run is in the merge, and the batch the merge
\* was called with is the records of the repositories whose fetch succeeded.
C4_RunReachesMerge ==
  (collected = Tasks /\ mainPc # "collecting") =>
    /\ mainPc = "merging"
    /\ mergePc = "called" => df = SucceededRecords

BadStatusSeen(i) == lastResp[i].status_code \notin {0, 200, 403}

\* C5. A response other than 200 and 403 fails the task at once: the task
\* issues no further request, and no frame of the aggregate comes from it.
C5_BadStatusFailsTask ==
  /\ [](\A i \in Tasks :
          BadStatusSeen(i) => pc[i] = "failed" /\ i \notin Range(dfsFrom))
  /\ [][\A i \in Tasks : pc[i] = "failed" => nreq'[i] = nreq[i]]_vars

\* A task failed on a bad status with records of an earlier page in hand, and
\* the run went on to merge another repository's records.
C5_Witness ==
  \E i \in Tasks :
    /\ BadStatusSeen(i)
    /\ commit_history[i] # << >>
    /\ i \in collected
    /\ dfs # << >>
    /\ mainPc = "merging"

\* The reset header of the last response is missing or spells no integer.
ResetUnusable(i) ==
  \/ ~HasHeader(lastResp[i].headers, "X-RateLimit-Reset")
  \/ ~IntOfString(HeaderValue(lastResp[i].headers, "X-RateLimit-Reset")).ok

\* C6, as claimed. wait_for_rate_limit never fails: after a 403 whose reset
\* header is missing or malformed the task waits no longer than the grace
\* delay and goes on to its retry.
C6_WaitNeverFails ==
  \A i \in Tasks :
    (lastResp[i].status_code = 403 /\ ResetUnusable(i)) =>
      /\ pc[i] = "sleep"
      /\ wakeAt[i] <= clock + GraceDelay

\* The reset instant of the last response, when it spells one.
ResetInstant(i) ==
  IntOfString(HeaderValue(lastResp[i].headers, "X-RateLimit-Reset")).val

\* C7. After a 403 with reset instant T the task issues its next request only
\* when the clock has reached T plus the grace delay.
C7_NoRequestBeforeReset ==
  [][\A i \in Tasks :
       ( /\ lastResp[i].status_code = 403
         /\ ~ResetUnusable(i)
         /\ nreq'[i] # nreq[i] ) => clock >= ResetInstant(i) + GraceDelay]_vars

\* A task was told a reset instant in the future, has waited until that
\* instant and the grace delay have passed, and is free to retry.
C7_Witness ==
  \E i \in Tasks :
    /\ pc[i] = "sleep"
    /\ lastResp[i].status_code = 403
    /\ ~ResetUnusable(i)
    /\ ResetInstant(i) >= 1
    /\ wakeAt[i] = ResetInstant(i) + GraceDelay
    /\ clock = wakeAt[i]

\* C8, as claimed. Quota exhaustion never ends a task with an error, whatever
\* the headers of the 403 response say.
C8_QuotaNeverAnError ==
  \A i \in Tasks : pc[i] = "failed" => lastResp[i].status_code # 403

\* The staging of the current call failed: the creation or the load raised, or
\* the load reported that it did not succeed.
StagingFailed ==
  \/ raisedAt \in {"create", "load"}
  \/ ~success /\ (mergePc \in {"loaded", "merged", "closed", "returned"}
                   \/ raisedAt = "merge")

\* C9, as claimed. When the staging fails the merge statement is not executed,
\* the call does not return normally and the permanent table is as it was.
C9_StagingFailureLeavesTable ==
  StagingFailed =>
    /\ mergePc \notin {"merged", "closed", "returned"}
    /\ table = tableBefore

\* C10. Every request of a task, retries after a quota wait included, carries
\* since = (the start of the fetch) - 3 days, and no record the task holds is
\* older than that.
C10_SinceIsFixed ==
  \A i \in Tasks :
    nreq[i] > 0 =>
      /\ lastReq[i].since = startTime[i] - WindowDays
      /\ \A n \in DOMAIN commit_history[i] :
           commit_history[i][n].date >= startTime[i] - WindowDays

\* A task has returned records after a retry issued later than its start.
C10_Witness ==
  \E i \in Tasks :
    /\ pc[i] = "done"
    /\ n403[i] >= 1
    /\ clock > startTime[i]
    /\ commit_history[i] # << >>
    /\ \E p \in DOMAIN remote[i] : Len(Served(remote[i], p, lastReq[i].since)) < Len(remote[i][p])


\* Task i issues a request in this step.
Requests(i) == nreq'[i] # nreq[i]

\* C11. After a 403 response to the request for page N the task's next
\* request is again for page N, and the 403 response added no record to the
\* task's accumulated result.
C11_RetrySamePage ==
  [][\A i \in Tasks :
       /\ (Requests(i) /\ lastResp'[i].status_code = 403) =>
            commit_history'[i] = commit_history[i]
       /\ (Requests(i) /\ lastResp[i].status_code = 403) =>
            lastReq'[i].page = lastReq[i].page]_vars

\* A fetch of two pages has returned after three requests: one of them was
\* the retry of a page that a 403 had answered.
C11_Witness ==
  \E i \in Tasks :
    /\ pc[i] = "done"
    /\ Len(remote[i]) = 2
    /\ n403[i] = 1
    /\ nreq[i] = 3
    /\ lastReq[i].page = 2

\* C12. The first request of a fetch is for page 1; a later request is for
\* the page of the request before it (a retry, after a 403) or for the next
\* one, and for the next one only after a 200 response that carried the
\* continuation signal; after a 200 response without it the task issues no
\* further request.
C12_PagesInOrder ==
  [][\A i \in Tasks :
       /\ (Requests(i) /\ nreq[i] = 0) => lastReq'[i].page = 1
       /\ (Requests(i) /\ nreq[i] > 0) =>
            \/ /\ lastReq'[i].page = lastReq[i].page
               /\ lastResp[i].status_code = 403
            \/ /\ lastReq'[i].page = lastReq[i].page + 1
               /\ lastResp[i].status_code = 200
               /\ lastResp[i].jsonOk
               /\ "next" \in lastResp[i].links
       /\ ( /\ lastResp[i].status_code = 200
            /\ lastResp[i].jsonOk
            /\ "next" \notin lastResp[i].links ) => ~Requests(i)]_vars

\* A fetch has gone from page 1 to page 2 and ended there.
C12_Witness ==
  \E i \in Tasks :
    /\ pc[i] = "done"
    /\ nreq[i] = 2
    /\ n403[i] = 0
    /\ lastReq[i].page = 2
    /\ "next" \notin lastResp[i].links


\* C13 as stated: the tasks run with no concurrency cap, so that no task has
\* to wait for another task to finish (or to come out of a quota wait)
\* before it can issue its first request: whenever a task is still in the
\* pool's queue, a worker is free to take it.
C13_NoTaskWaits ==
  \A i \in Tasks : pc[i] = "queued" => Cardinality(Running) < workers

\* C13, amended.  One fetch task per repository, run concurrently up to the
\* number of worker threads of the pool: never more tasks are in flight than
\* the pool has workers, and when the pool has as many workers as there are
\* repositories every task starts at the time of its submission, waiting for
\* no other task.
C13_ConcurrentUpToPoolSize ==
  /\ DOMAIN pc = DOMAIN repos
  /\ Cardinality(Running) <= workers
  /\ workers >= Len(repos) =>
       \A i \in Tasks : pc[i] # "queued" => startTime[i] = 0

\* Every task is in flight at the same time, one of them in a quota wait
\* while another has issued its first request.
C13_Witness ==
  /\ \A i \in Tasks : pc[i] \in {"request", "sleep"}
  /\ \E i, j \in Tasks :
       /\ pc[i] = "sleep"
       /\ clock < wakeAt[i]
       /\ pc[j] = "request"
       /\ nreq[j] = 1


\* C14. The merge is invoked at most once per run, only after every fetch task
\* has completed and was collected, and on the union of all the collected
\* records: in no state has the merge started while a task is queued or in
\* flight, and there is no merge per repository.
C14_OneMergeAfterAllFetches ==
  /\ calls <= 1
  /\ calls = 0 <=> mergePc = "idle"
  /\ mergePc # "idle" =>
       /\ \A i \in Tasks : pc[i] \in {"done", "failed"}
       /\ collected = Tasks
       /\ Len(dfs) = Cardinality({ i \in Tasks : pc[i] = "done" })
       /\ df \in { Concat(dfs),
                   [n \in DOMAIN Concat(dfs) |-> ColumnsUpper(Concat(dfs)[n])] }

\* The one merge of a run has returned, on the records of two repositories.
C14_Witness ==
  /\ mergePc = "returned"
  /\ calls = 1
  /\ Len(dfs) = 2
  /\ \A n \in DOMAIN dfs : dfs[n] # << >>


\* C15. The merge only inserts: throughout a call and after it, however it
\* ends, every row the permanent table held when the call was entered is
\* still there, and every row added is a row of the batch whose triple the
\* table did not hold when the call was entered.
C15_InsertOnly ==
  \A k \in Rows :
    /\ table[k] >= tableBefore[k]
    /\ table[k] > tableBefore[k] =>
         /\ tableBefore[k] = 0
         /\ table[k] <= BagOf(df)[k]

\* A call has returned whose batch held a row of the table and a row that
\* was new, and the new one was added.
C15_Witness ==
  /\ mergePc = "returned"
  /\ \E k \in Rows : tableBefore[k] = 1 /\ BagOf(df)[k] >= 1
  /\ \E k \in Rows : tableBefore[k] = 0 /\ table[k] >= 1


\* The table after the call on batch a and then the call on batch b, each
\* from entry to return with no other call in between.
OneAfterTheOther(t, a, b) == MergeQuery(MergeQuery(t, BagOf(a)), BagOf(b))

\* The part of C16 that is about the order of the statements alone.
ConcurrentAsSerial ==
  table \in { OneAfterTheOther(tableBefore, df, other.df),
              OneAfterTheOther(tableBefore, other.df, df) }

\* C16, as claimed. Two merge calls of concurrent runs on the same permanent
\* table, interleaved in any order at their statements, do not interfere:
\* when both have loaded their batch and returned, the table is what running
\* the two calls one after the other gives, and it holds no triple twice.
C16_ConcurrentMergesDoNotInterfere ==
  ( /\ mergePc = "returned" /\ success
    /\ other.pc = "returned" /\ other.success ) =>
      /\ ConcurrentAsSerial
      /\ \A k \in Rows : table[k] <= 1


\* The rows of a table, counted with their copies.
RECURSIVE RowCountOver(_, _)
RowCountOver(t, S) ==
  IF S = {} THEN 0
  ELSE LET k == CHOOSE x \in S : TRUE
       IN  t[k] + RowCountOver(t, S \ {k})

RowCount(t) == RowCountOver(t, Rows)

\* C17, as claimed. The count of inserted rows that a successful merge
\* reports is the number of rows the call added to the permanent table: N for
\* N new records merged into an empty table, 0 for the identical records
\* merged again.
C17_ReportedCountIsRowsAdded ==
  (mergePc = "returned" /\ printed.kind = "written") =>
    printed.rows = RowCount(table) - RowCount(tableBefore)

\* C18, as claimed. Whenever a merge call has ended, by returning or by an
\* exception of any of its statements, its staging table no longer exists and
\* its connection is closed.
C18_ReleasedOnEveryExit ==
  mergePc \in {"returned", "raised"} =>
    /\ ~stagingExists
    /\ conn # "open"

\* C19. The fetch tasks share no mutable state: every record a task has
\* accumulated carries the owner/name key of that task's repository; the
\* aggregate holds one frame for each collected task that succeeded, no task
\* twice, and each frame is the result of its task and of no other.
C19_TasksShareNothing ==
  /\ \A i \in Tasks : \A n \in DOMAIN commit_history[i] :
       commit_history[i][n].repo_name = RepoName(repos[i].OWNER, repos[i].NAME)
  /\ Len(dfs) = Len(dfsFrom)
  /\ \A n, m \in DOMAIN dfsFrom : dfsFrom[n] = dfsFrom[m] => n = m
  /\ Range(dfsFrom) = { i \in collected : pc[i] = "done" }
  /\ \A n \in DOMAIN dfs :
       /\ dfs[n] = commit_history[dfsFrom[n]]
       /\ \A x \in DOMAIN dfs[n] :
            dfs[n][x].repo_name =
              RepoName(repos[dfsFrom[n]].OWNER, repos[dfsFrom[n]].NAME)

\* Both tasks have fetched records and both results are in the aggregate, the
\* second repository's first.
C19_Witness ==
  /\ Len(dfs) = 2
  /\ dfsFrom = << 2, 1 >>
  /\ \A n \in DOMAIN dfs : dfs[n] # << >>


=============================================================================
